---- MODULE Spec2Model ----
(***************************************************************************)
(* Netflux: the User interaction state (favorites, watchlist, watched,     *)
(* liked genres) and the UserManager with its JSON store, modelled from    *)
(* src/user_manager/user.py; the Movie and the Catalog, from               *)
(* src/models/movie.py and src/models/catalog.py; the recommendations     *)
(* and the queries of the MovieController, from                            *)
(* src/controllers/movie_controller.py; the login dialog, from             *)
(* src/user_manager/user_dialogs.py; the click handlers of the card and of *)
(* the detail window, from src/widgets.                                    *)
(*                                                                         *)
(* The specifications of the module:                                       *)
(*   SpecUser     one User object driven by its eight mutators;            *)
(*   Spec         one UserManager, its store file and the clock, with      *)
(*                writes that can fail and a file others can edit;         *)
(*   SpecStore    the UserManager when every write succeeds;               *)
(*   SpecRestart  a manager saves its store and the program restarts;      *)
(*   SpecCatalog  one Catalog loads its file;                              *)
(*   SpecReco     recommendations for one user of one loaded catalog;      *)
(*   SpecQuery    the queries of a MovieController and of its Catalog;     *)
(*   SpecLogin    logins, logouts and deleted accounts from an empty store;*)
(*   SpecClick    the like, watchlist and watched buttons are clicked;     *)
(*   SpecRace     two processes save to the same store file.               *)
(***************************************************************************)
EXTENDS Integers, Sequences, FiniteSets, TLC

\* ------------------------------------------------------------- bounds
\* Film system names are 1..NFilms.
NFilms == 2

\* The clock (milliseconds since some origin) runs from 1 to MaxClock.
MaxClock == 2

Films == 1..NFilms
Genres == {"Action", "Drama"}
Ids == 1..MaxClock
Usernames == {"ann", "bob"}

\* Python's None, where a reference or an id is expected
None == -1

\* ------------------------------------------------------- python lists
\* x in s
In(x, s) == \E i \in 1..Len(s) : s[i] = x

\* the values of a list, as a set
Elems(s) == {s[i] : i \in 1..Len(s)}

NoDup(s) == \A i, j \in 1..Len(s) : s[i] = s[j] => i = j

\* list.remove(x) on a list that holds x: drops the first occurrence
ListRemove(s, x) ==
    LET k == CHOOSE i \in 1..Len(s) : s[i] = x /\ \A j \in 1..(i - 1) : s[j] # x
    IN  SubSeq(s, 1, k - 1) \o SubSeq(s, k + 1, Len(s))

\* --------------------------------------------------------------- User
\* User.__init__ with the id already decided
User_init(username, email, user_id) ==
    [user_id |-> user_id, username |-> username, email |-> email,
     favorites |-> <<>>, watchlist |-> <<>>, watched |-> <<>>,
     liked_genres |-> <<>>]

\* Every mutator is an operator from (user, argument) to the user it leaves
\* and the value it returns.
\* (add_to_liked_genre and remove_a_liked_genre also bind self.likedGenre to
\* the liked_genres list itself: a second name for the same list, no state.)
Result(u, ret) == [u |-> u, ret |-> ret]

\* add_favorite without its membership test
add_favorite_always_appends(u, film_code) ==
    Result([u EXCEPT !.favorites = Append(@, film_code)], TRUE)

add_favorite(u, film_code) ==
    IF ~In(film_code, u.favorites)
    THEN Result([u EXCEPT !.favorites = Append(@, film_code)], TRUE)
    ELSE Result(u, FALSE)

\* remove_favorite dropping the first favorite instead of film_code
remove_favorite_pops_first(u, film_code) ==
    IF In(film_code, u.favorites)
    THEN Result([u EXCEPT !.favorites = Tail(@)], TRUE)
    ELSE Result(u, FALSE)

remove_favorite(u, film_code) ==
    IF In(film_code, u.favorites)
    THEN Result([u EXCEPT !.favorites = ListRemove(@, film_code)], TRUE)
    ELSE Result(u, FALSE)

is_favorite(u, film_code) == In(film_code, u.favorites)

add_to_watchlist(u, film_code) ==
    IF ~In(film_code, u.watchlist)
    THEN Result([u EXCEPT !.watchlist = Append(@, film_code)], TRUE)
    ELSE Result(u, FALSE)

\* remove_from_watchlist that reports a removal it does not make
remove_from_watchlist_keeps(u, film_code) ==
    IF In(film_code, u.watchlist) THEN Result(u, TRUE) ELSE Result(u, FALSE)

remove_from_watchlist(u, film_code) ==
    IF In(film_code, u.watchlist)
    THEN Result([u EXCEPT !.watchlist = ListRemove(@, film_code)], TRUE)
    ELSE Result(u, FALSE)

is_in_watchlist(u, film_code) == In(film_code, u.watchlist)

\* mark_as_watched without the call of remove_from_watchlist
mark_as_watched_keeps_watchlist(u, film_code) ==
    IF ~In(film_code, u.watched)
    THEN Result([u EXCEPT !.watched = Append(@, film_code)], TRUE)
    ELSE Result(u, FALSE)

mark_as_watched(u, film_code) ==
    IF ~In(film_code, u.watched)
    THEN Result(remove_from_watchlist(
                    [u EXCEPT !.watched = Append(@, film_code)], film_code).u,
                TRUE)
    ELSE Result(u, FALSE)

\* unmark_as_watched that puts the film back on the watchlist
unmark_as_watched_restores_watchlist(u, film_code) ==
    IF In(film_code, u.watched)
    THEN Result(add_to_watchlist(
                    [u EXCEPT !.watched = ListRemove(@, film_code)], film_code).u,
                TRUE)
    ELSE Result(u, FALSE)

unmark_as_watched(u, film_code) ==
    IF In(film_code, u.watched)
    THEN Result([u EXCEPT !.watched = ListRemove(@, film_code)], TRUE)
    ELSE Result(u, FALSE)

is_watched(u, film_code) == In(film_code, u.watched)

\* add_to_liked_genre inserting at the front
add_to_liked_genre_prepends(u, genre) ==
    IF ~In(genre, u.liked_genres)
    THEN Result([u EXCEPT !.liked_genres = <<genre>> \o @], TRUE)
    ELSE Result(u, FALSE)

add_to_liked_genre(u, genre) ==
    IF ~In(genre, u.liked_genres)
    THEN Result([u EXCEPT !.liked_genres = Append(@, genre)], TRUE)
    ELSE Result(u, FALSE)

remove_a_liked_genre(u, genre) ==
    IF In(genre, u.liked_genres)
    THEN Result([u EXCEPT !.liked_genres = ListRemove(@, genre)], TRUE)
    ELSE Result(u, FALSE)

is_in_liked_genre(u, genre) == In(genre, u.liked_genres)

\* -------------------------------------------------------- UserManager
\* User objects live in a heap; a reference is what Python's "is" compares.
\* users is the dict of UserManager in insertion order: a list of
\* [key, ref]; current_user is a reference or None.  The manager together
\* with its store file is the record m = [heap, users, current_user, file].
\* heap is a function from the references in use to User objects.
\* The store file: no file at data_file, a file whose content is not valid
\* JSON, or the JSON object {users, current_user_id}.
Absent == [kind |-> "absent"]
Garbage == [kind |-> "garbage"]
Json(us, cid) == [kind |-> "json", users |-> us, current_user_id |-> cid]
Refs == 1..(MaxClock + 2)

Keys(us) == {us[i].key : i \in 1..Len(us)}
IndexOf(us, k) == CHOOSE i \in 1..Len(us) : us[i].key = k
DictGet(us, k) == us[IndexOf(us, k)].ref
\* d[k] = r: a key already present keeps its place
DictSet(us, k, r) ==
    IF k \in Keys(us)
    THEN [us EXCEPT ![IndexOf(us, k)].ref = r]
    ELSE Append(us, [key |-> k, ref |-> r])
\* del d[k]
DictDel(us, k) ==
    LET i == IndexOf(us, k)
    IN  SubSeq(us, 1, i - 1) \o SubSeq(us, i + 1, Len(us))

\* a reference no object occupies
FreeRef(h) ==
    CHOOSE r \in Refs \ DOMAIN h : \A q \in Refs \ DOMAIN h : r <= q

\* h with object u at reference r
Store(h, r, u) == [q \in DOMAIN h \cup {r} |-> IF q = r THEN u ELSE h[q]]

\* Objects nothing refers to are collected and the live ones renumbered (the
\* stored users 1..n in dict order, a current user that is not stored n + 1):
\* addresses carry no meaning beyond identity.
Normalize(m) ==
    LET n == Len(m.users)
        cur == m.current_user
        detached == cur # None /\ \A i \in 1..n : m.users[i].ref # cur
    IN  [m EXCEPT
            !.heap = [r \in 1..(IF detached THEN n + 1 ELSE n) |->
                        IF r <= n THEN m.heap[m.users[r].ref] ELSE m.heap[cur]],
            !.users = [i \in 1..n |-> [key |-> m.users[i].key, ref |-> i]],
            !.current_user =
                IF cur = None THEN None
                ELSE IF detached THEN n + 1
                ELSE CHOOSE i \in 1..n : m.users[i].ref = cur]

\* int(time.time() * 1000)
generate_id(now) == now

to_dict(u) ==
    [user_id |-> u.user_id, username |-> u.username,
     favorites |-> u.favorites, watchlist |-> u.watchlist,
     watched |-> u.watched, likedGenres |-> u.liked_genres]

\* data.get(key, default)
Get(data, key, default) == IF key \in DOMAIN data THEN data[key] ELSE default

\* data["username"] raises KeyError when the key is missing
from_dict_raises(data) == "username" \notin DOMAIN data

\* from_dict reading the liked genres under the attribute's name
from_dict_reads_liked_genres(data, now) ==
    [user_id |-> IF "user_id" \in DOMAIN data THEN data.user_id
                 ELSE generate_id(now),
     username |-> data.username, email |-> "",
     favorites |-> Get(data, "favorites", <<>>),
     watchlist |-> Get(data, "watchlist", <<>>),
     watched |-> Get(data, "watched", <<>>),
     liked_genres |-> Get(data, "liked_genres", <<>>)]

from_dict(data, now) ==
    [user_id |-> IF "user_id" \in DOMAIN data THEN data.user_id
                 ELSE generate_id(now),
     username |-> data.username, email |-> "",
     favorites |-> Get(data, "favorites", <<>>),
     watchlist |-> Get(data, "watchlist", <<>>),
     watched |-> Get(data, "watched", <<>>),
     liked_genres |-> Get(data, "likedGenres", <<>>)]

\* Python truthiness of current_user_id
Truthy(id) == id # None /\ id # 0

\* the loop of load_users over the first n records
RECURSIVE LoadRecords(_, _, _, _)
LoadRecords(m, recs, n, now) ==
    IF n = 0 THEN m
    ELSE LET m1 == LoadRecords(m, recs, n - 1, now)
             u == from_dict(recs[n], now)
             r == FreeRef(m1.heap)
         IN  [m1 EXCEPT !.heap = Store(@, r, u),
                        !.users = DictSet(@, u.user_id, r)]

MResult(m, ret) == [m |-> m, ret |-> ret]

\* a bool as Python prints it
Str(v) == IF v = TRUE THEN "True" ELSE "False"

load_users(m, now) ==
    IF m.file.kind = "absent" THEN MResult(m, FALSE)
    ELSE IF m.file.kind = "garbage" THEN MResult(m, FALSE)
    ELSE
        LET recs == m.file.users
            bad == {i \in 1..Len(recs) : from_dict_raises(recs[i])}
            n == IF bad = {} THEN Len(recs)
                 ELSE (CHOOSE i \in bad : \A j \in bad : i <= j) - 1
            \* self.users = {}
            m0 == [m EXCEPT
                     !.users = <<>>,
                     !.heap = [r \in DOMAIN m.heap \cap {m.current_user} |->
                                 m.heap[r]]]
            m1 == LoadRecords(m0, recs, n, now)
            cid == m.file.current_user_id
        IN  IF bad # {} THEN MResult(m1, FALSE)
            ELSE IF Truthy(cid) /\ cid \in Keys(m1.users)
            THEN MResult([m1 EXCEPT !.current_user = DictGet(m1.users, cid)], TRUE)
            ELSE MResult(m1, TRUE)

\* What a save can meet: the write succeeds; open() fails and the file is
\* untouched; or open(..., 'w') has truncated the file and the write fails.
SaveOutcomes == {"ok", "open_fails", "write_fails"}

\* the id of the current user, None when none is set
CurrentId(m) ==
    IF m.current_user = None THEN None ELSE m.heap[m.current_user].user_id

\* the data save_users serializes
StoreData(m) ==
    Json([i \in 1..Len(m.users) |-> to_dict(m.heap[m.users[i].ref])],
         IF m.current_user # None THEN m.heap[m.current_user].user_id
         ELSE None)

save_users(m, outcome) ==
    CASE outcome = "ok" -> MResult([m EXCEPT !.file = StoreData(m)], TRUE)
      [] outcome = "open_fails" -> MResult(m, FALSE)
      [] outcome = "write_fails" -> MResult([m EXCEPT !.file = Garbage], FALSE)

\* returns the manager, the created user (a reference) and, for the
\* properties, what the save inside returned
create_user(m, username, email, now, outcome) ==
    LET r == FreeRef(m.heap)
        u == User_init(username, email, generate_id(now))
        m1 == [m EXCEPT !.heap = Store(@, r, u),
                        !.users = DictSet(@, u.user_id, r),
                        !.current_user = r]
        sv == save_users(m1, outcome)
    IN  [m |-> sv.m, ret |-> r, saved |-> Str(sv.ret)]

\* set_current_user without its membership test
set_current_user_unguarded(m, ref, outcome) ==
    LET sv == save_users([m EXCEPT !.current_user = ref], outcome)
    IN  [m |-> sv.m, ret |-> None, saved |-> Str(sv.ret)]

set_current_user(m, ref, outcome) ==
    IF m.heap[ref].user_id \in Keys(m.users)
    THEN LET sv == save_users([m EXCEPT !.current_user = ref], outcome)
         IN  [m |-> sv.m, ret |-> None, saved |-> Str(sv.ret)]
    ELSE [m |-> m, ret |-> None, saved |-> "None"]

\* delete_user leaving current_user as it is
delete_user_keeps_current(m, user_id, outcome) ==
    IF user_id \in Keys(m.users)
    THEN LET sv == save_users([m EXCEPT !.users = DictDel(@, user_id)],
                              outcome)
         IN  [m |-> sv.m, ret |-> TRUE, saved |-> Str(sv.ret)]
    ELSE [m |-> m, ret |-> FALSE, saved |-> "None"]

delete_user(m, user_id, outcome) ==
    IF user_id \in Keys(m.users)
    THEN LET m1 == [m EXCEPT
                      !.users = DictDel(@, user_id),
                      !.current_user =
                          IF @ # None /\ m.heap[@].user_id = user_id
                          THEN None ELSE @]
             sv == save_users(m1, outcome)
         IN  [m |-> sv.m, ret |-> TRUE, saved |-> Str(sv.ret)]
    ELSE [m |-> m, ret |-> FALSE, saved |-> "None"]

get_or_create_default_user(m, now, outcome) ==
    IF m.current_user # None
    THEN [m |-> m, ret |-> m.current_user, saved |-> "None"]
    ELSE IF Len(m.users) > 0
    THEN [m |-> [m EXCEPT !.current_user = m.users[1].ref],
          ret |-> m.users[1].ref, saved |-> "None"]
    ELSE create_user(m, "User", "user@netflux.com", now, outcome)

\* the first stored user of that exact username, None when there is none
get_user_by_username(m, username) ==
    IF \E i \in 1..Len(m.users) : m.heap[m.users[i].ref].username = username
    THEN m.users[CHOOSE i \in 1..Len(m.users) :
                   /\ m.heap[m.users[i].ref].username = username
                   /\ \A j \in 1..(i - 1) :
                         m.heap[m.users[j].ref].username # username].ref
    ELSE None

\* what the login dialog's text field can hold, and str.strip() of it
LoginTexts == {"", " ", "ann", " ann ", "bob"}
strip(text) ==
    CASE text = " " -> ""
      [] text = " ann " -> "ann"
      [] text = " Heat " -> "Heat"
      [] OTHER -> text

\* on_login creating an account whatever users holds
on_login_always_creates(m, text, now, outcome) ==
    IF strip(text) = "" THEN [m |-> m, ret |-> None, saved |-> "None"]
    ELSE create_user(m, strip(text), "", now, outcome)

\* LoginDialog.on_login; ret is the logged user (a reference), None when the
\* dialog stays open
on_login(m, text, now, outcome) ==
    LET username == strip(text)
        existing_user == get_user_by_username(m, username)
    IN  IF username = "" THEN [m |-> m, ret |-> None, saved |-> "None"]
        ELSE IF existing_user # None
        THEN LET r == set_current_user(m, existing_user, outcome)
             IN  [m |-> r.m, ret |-> existing_user, saved |-> r.saved]
        ELSE create_user(m, username, "", now, outcome)

\* ---- the store file as the text json.dump(data, f, indent=2) writes
\* The text is a list of cells of one size: with indent=2 every user and
\* every element of a list is on lines of its own.
Cells(name, list) == [i \in 1..Len(list) |-> [t |-> name, v |-> list[i]]]

UserText(d) ==
    <<[t |-> "user", user_id |-> d.user_id, username |-> d.username]>>
    \o Cells("favorites", d.favorites) \o Cells("watchlist", d.watchlist)
    \o Cells("watched", d.watched)
    \o [i \in 1..Len(d.likedGenres) |->
           [t |-> "likedGenres", genre |-> d.likedGenres[i]]]

RECURSIVE UsersText(_, _)
UsersText(dicts, i) ==
    IF i > Len(dicts) THEN <<>>
    ELSE UserText(dicts[i]) \o UsersText(dicts, i + 1)

Text(data) ==
    UsersText(data.users, 1)
    \o <<[t |-> "current_user_id", user_id |-> data.current_user_id]>>

TextFile(cells) == [kind |-> "text", cells |-> cells]

\* open(data_file, 'w'): the file is cut to nothing, the position is 0
open_w(f) == TextFile(<<>>)

\* the write of the whole text at position 0 when the file is closed: what
\* the file held beyond the text stays
write_close(f, text) ==
    TextFile(text \o SubSeq(f.cells, Len(text) + 1, Len(f.cells)))

\* ---- the click handlers of the card and of the detail window
\* the User object behind current_user, and the manager with that object
\* replaced by what a mutator left
CurrentUser(m) == m.heap[m.current_user]
SetUser(m, u) == [m EXCEPT !.heap[m.current_user] = u]

\* signal.emit(film_code, value): the connected slots run inside emit; the
\* store file and what save_users would write are kept as they are then
Emitted(signal, film_code, value, m) ==
    [signal |-> signal, film_code |-> film_code, value |-> value,
     file |-> m.file, data |-> StoreData(m)]

\* the slots of main.py: the manager they leave
_sync_all_cards_like_state(m, film_id, is_liked) == m

_on_watchlist_changed(m, movie_id, now_in_watchlist) == m

_on_watched_changed(m, movie_id, now_watched, outcome) ==
    IF /\ now_watched
       /\ m.current_user # None
       /\ is_in_watchlist(CurrentUser(m), movie_id)
    THEN save_users(SetUser(m, remove_from_watchlist(CurrentUser(m),
                                                     movie_id).u),
                    outcome).m
    ELSE m

\* what a handler leaves: the manager, the signals it emitted in order and
\* what its save_users returned ("None" when it did not call it)
Handled(m, events, saved) == [m |-> m, events |-> events, saved |-> saved]

\* FilmCard.on_like_clicked
FilmCard_on_like_clicked(m, film_code, outcome) ==
    IF m.current_user = None THEN Handled(m, <<>>, "None")
    ELSE LET user == CurrentUser(m)
             is_now_liked == ~is_favorite(user, film_code)
             sv == save_users(
                       SetUser(m, IF is_now_liked
                                  THEN add_favorite(user, film_code).u
                                  ELSE remove_favorite(user, film_code).u),
                       outcome)
         IN  Handled(_sync_all_cards_like_state(sv.m, film_code, is_now_liked),
                     <<Emitted("like_changed", film_code, is_now_liked, sv.m)>>,
                     Str(sv.ret))

\* MovieDetailModal.on_like_clicked
on_like_clicked(m, film_code, outcome) ==
    IF m.current_user = None THEN Handled(m, <<>>, "None")
    ELSE LET user == CurrentUser(m)
             is_liked == ~is_favorite(user, film_code)
             sv == save_users(
                       SetUser(m, IF is_liked
                                  THEN add_favorite(user, film_code).u
                                  ELSE remove_favorite(user, film_code).u),
                       outcome)
         IN  Handled(_sync_all_cards_like_state(sv.m, film_code, is_liked),
                     <<Emitted("like_changed", film_code, is_liked, sv.m)>>,
                     Str(sv.ret))

\* MovieDetailModal.on_watchlist_clicked
on_watchlist_clicked(m, film_code, outcome) ==
    IF m.current_user = None THEN Handled(m, <<>>, "None")
    ELSE LET user == CurrentUser(m)
             now_in_watchlist == ~is_in_watchlist(user, film_code)
             sv == save_users(
                       SetUser(m, IF now_in_watchlist
                                  THEN add_to_watchlist(user, film_code).u
                                  ELSE remove_from_watchlist(user, film_code).u),
                       outcome)
         IN  Handled(_on_watchlist_changed(sv.m, film_code, now_in_watchlist),
                     <<Emitted("watchlist_changed", film_code,
                               now_in_watchlist, sv.m)>>,
                     Str(sv.ret))

\* MovieDetailModal.on_watched_clicked
on_watched_clicked(m, film_code, outcome) ==
    IF m.current_user = None THEN Handled(m, <<>>, "None")
    ELSE LET user == CurrentUser(m)
             now_watched == ~is_watched(user, film_code)
             was_in_watchlist == is_in_watchlist(user, film_code)
             marked == mark_as_watched(user, film_code).u
             m1 == SetUser(m,
                       IF now_watched
                       THEN IF was_in_watchlist
                            THEN remove_from_watchlist(marked, film_code).u
                            ELSE marked
                       ELSE unmark_as_watched(user, film_code).u)
             first == IF now_watched /\ was_in_watchlist
                      THEN <<Emitted("watchlist_changed", film_code, FALSE,
                                     m1)>>
                      ELSE <<>>
             m2 == IF now_watched /\ was_in_watchlist
                   THEN _on_watchlist_changed(m1, film_code, FALSE)
                   ELSE m1
             sv == save_users(m2, outcome)
         IN  Handled(_on_watched_changed(sv.m, film_code, now_watched,
                                         outcome),
                     first \o <<Emitted("watched_changed", film_code,
                                        now_watched, sv.m)>>,
                     Str(sv.ret))

\* MainApp.on_logout_clicked, once the user has confirmed
on_logout_clicked(m, outcome) ==
    LET sv == save_users([m EXCEPT !.current_user = None], outcome)
    IN  [m |-> sv.m, ret |-> None, saved |-> Str(sv.ret)]

\* ---------------------------------------------------- Movie, Catalog
\* A line of the catalog file is the list of its ":"-separated fields, each
\* one stripped; a blank line is the one empty field.  The fields are text,
\* except system_name, which is a film code as User keeps them.

\* the texts int() accepts
IntTexts == {"0", "117", "170", "1979", "1995"}

\* int(s); what it returns on the texts it accepts
int(s) ==
    CASE s = "0" -> 0
      [] s = "117" -> 117
      [] s = "170" -> 170
      [] s = "1979" -> 1979
      [] s = "1995" -> 1995

\* [x.strip() for x in s.split(",")]
SplitComma(s) ==
    CASE s = "Action,Drama" -> <<"Action", "Drama">>
      [] s = "Action,Action" -> <<"Action", "Action">>
      [] s = "Mann, Scott" -> <<"Mann", "Scott">>
      [] OTHER -> <<s>>

\* Movie(...): raises ValueError when int() refuses year or minutes; an
\* empty year is 0
Movie_raises(year, minutes) ==
    \/ year # "" /\ year \notin IntTexts
    \/ minutes \notin IntTexts

Movie_init(title, year, minutes, genres, system_name, director, cast, synopsis) ==
    [title |-> title,
     year |-> IF year # "" THEN int(year) ELSE 0,
     minutes |-> int(minutes),
     genres |-> genres, system_name |-> system_name,
     director |-> director, cast |-> cast, synopsis |-> synopsis]

\* The catalog file: missing, or its lines.
NoFile == [exists |-> FALSE, lines |-> <<>>]
File(lines) == [exists |-> TRUE, lines |-> lines]

\* Catalog(path): the catalog with the file at its path and what the last
\* load_from_csv did ("none" before any, "returned", or the exception raised)
Catalog_init(file) == [file |-> file, movies |-> <<>>, load |-> "none"]

Part(parts, k) == IF Len(parts) >= k THEN parts[k] ELSE ""

\* the header test on lines[0]: the text starts with "title:"
IsHeader(line) == Len(line) >= 2 /\ line[1] = "title"

IsBlank(line) == Len(line) = 1 /\ line[1] = ""

\* the Movie built from the fields of a line
MovieOf(parts) ==
    Movie_init(parts[1], parts[2], parts[3], SplitComma(parts[4]), parts[5],
               Part(parts, 6), Part(parts, 7), Part(parts, 8))

\* the body of the loop over the lines from line i on, until the first raise
RECURSIVE LoadLines(_, _, _)
LoadLines(c, lines, i) ==
    IF i > Len(lines) THEN [c EXCEPT !.load = "returned"]
    ELSE LET parts == lines[i]
         IN  IF IsBlank(parts) THEN LoadLines(c, lines, i + 1)
             ELSE IF Len(parts) < 5 THEN LoadLines(c, lines, i + 1)
             ELSE IF Movie_raises(parts[2], parts[3])
             THEN [c EXCEPT !.load = "ValueError"]
             ELSE LoadLines([c EXCEPT !.movies = Append(@, MovieOf(parts))],
                            lines, i + 1)

load_from_csv(c) ==
    IF ~c.file.exists THEN [c EXCEPT !.load = "FileNotFoundError"]
    ELSE LET lines == c.file.lines
             body == IF Len(lines) > 0 /\ IsHeader(lines[1])
                     THEN Tail(lines) ELSE lines
         IN  LoadLines(c, body, 1)

\* any(genre in movie.genres for genre in genres_list)
HasOneOf(movie, genres_list) ==
    \E k \in 1..Len(genres_list) : In(genres_list[k], movie.genres)

\* [x for x in s if keep(x)], by the indices kept
RECURSIVE SelectIdx(_, _)
SelectIdx(s, keep) ==
    IF s = <<>> THEN <<>>
    ELSE LET front == SelectIdx(SubSeq(s, 1, Len(s) - 1), keep)
         IN  IF Len(s) \in keep THEN Append(front, s[Len(s)]) ELSE front

\* get_movies_from_multiple_genres without its test for an empty list,
\* taking every movie then
get_movies_from_multiple_genres_all_when_empty(c, genres_list) ==
    SelectIdx(c.movies,
              {i \in 1..Len(c.movies) :
                  genres_list = <<>> \/ HasOneOf(c.movies[i], genres_list)})

\* get_movies_from_multiple_genres taking a movie once for each of the given
\* genres it has, from movie i on
RECURSIVE PerGenre(_, _, _)
PerGenre(c, genres_list, i) ==
    IF i > Len(c.movies) THEN <<>>
    ELSE [k \in 1..Cardinality({g \in 1..Len(genres_list) :
                                   In(genres_list[g], c.movies[i].genres)})
             |-> c.movies[i]] \o PerGenre(c, genres_list, i + 1)

get_movies_from_multiple_genres_per_genre(c, genres_list) ==
    PerGenre(c, genres_list, 1)

get_movies_from_multiple_genres(c, genres_list) ==
    IF genres_list = <<>> THEN <<>>
    ELSE SelectIdx(c.movies,
                   {i \in 1..Len(c.movies) : HasOneOf(c.movies[i], genres_list)})

\* the first movie of that system_name; NoMovie stands for None
NoMovie == [system_name |-> None]
get_movie_by_system_name(c, system_name) ==
    IF \E i \in 1..Len(c.movies) : c.movies[i].system_name = system_name
    THEN c.movies[CHOOSE i \in 1..Len(c.movies) :
                    /\ c.movies[i].system_name = system_name
                    /\ \A j \in 1..(i - 1) :
                          c.movies[j].system_name # system_name]
    ELSE NoMovie

get_all_catalog(c) == c.movies

\* ------------------------------------------------------ MovieController
\* Movie.__eq__ compares system_name: movie in movies
MovieIn(movie, movies) ==
    \E i \in 1..Len(movies) : movies[i].system_name = movie.system_name

get_favorite_directors(c, u) ==
    IF u.favorites = <<>> THEN {}
    ELSE UNION {LET movie == get_movie_by_system_name(c, u.favorites[k])
                IN  IF movie # NoMovie /\ movie.director # ""
                    THEN Elems(SplitComma(movie.director)) ELSE {}
                : k \in 1..Len(u.favorites)}

\* the loop that appends the movies of the favorite directors, from movie i on
RECURSIVE AddByDirector(_, _, _, _)
AddByDirector(recommended_movies, all_movies, favorite_directors, i) ==
    IF i > Len(all_movies) THEN recommended_movies
    ELSE LET movie == all_movies[i]
             take == /\ ~MovieIn(movie, recommended_movies)
                     /\ movie.director # ""
                     /\ Elems(SplitComma(movie.director))
                          \cap favorite_directors # {}
         IN  AddByDirector(IF take THEN Append(recommended_movies, movie)
                           ELSE recommended_movies,
                           all_movies, favorite_directors, i + 1)

\* hasattr(user, name): a User has all its attributes
HasAttr(u, name) == name \in DOMAIN u

\* no user: None
NoUser == [user_id |-> None]

get_recommended_movies(c, u) ==
    IF u = NoUser THEN <<>>
    ELSE
    IF /\ ~HasAttr(u, "liked_genres") /\ u.liked_genres = <<>>
       /\ ~HasAttr(u, "favorites") /\ u.favorites = <<>>
    THEN <<>>
    ELSE LET by_genre == get_movies_from_multiple_genres(c, u.liked_genres)
             favorite_directors == get_favorite_directors(c, u)
             recommended ==
                 IF favorite_directors # {}
                 THEN AddByDirector(by_genre, get_all_catalog(c),
                                    favorite_directors, 1)
                 ELSE by_genre
         IN  IF u.watched # <<>>
             THEN SelectIdx(recommended,
                            {i \in 1..Len(recommended) :
                                ~In(recommended[i].system_name, u.watched)})
             ELSE recommended

\* str.lower() and str.split() on the texts that are searched and searched for
lower(s) ==
    CASE s = "Heat" -> "heat"
      [] s = " Heat " -> " heat "
      [] s = "Alien" -> "alien"
      [] s = "Mann" -> "mann"
      [] s = "Scott" -> "scott"
      [] OTHER -> s

split(s) ==
    CASE s = "" -> <<>>
      [] s = " " -> <<>>
      [] s = " heat " -> <<"heat">>
      [] s = "mann alien" -> <<"mann", "alien">>
      [] OTHER -> <<s>>

\* word in text, for the words of split and the lowered titles and directors
Within(word, text) ==
    \/ word = ""
    \/ word = text
    \/ <<word, text>> \in {<<"al", "alien">>, <<"ea", "heat">>}

get_movies_by_title(c, keywords) ==
    IF keywords = "" THEN <<>>
    ELSE LET words == split(lower(keywords))
         IN  SelectIdx(c.movies,
                       {i \in 1..Len(c.movies) :
                           \E k \in 1..Len(words) :
                               Within(words[k], lower(c.movies[i].title))})

get_movies_by_title_or_director(c, keywords) ==
    IF keywords = "" THEN <<>>
    ELSE LET words == split(lower(keywords))
         IN  SelectIdx(c.movies,
                       {i \in 1..Len(c.movies) :
                           LET title_lower == lower(c.movies[i].title)
                               director_lower ==
                                   IF c.movies[i].director # ""
                                   THEN lower(c.movies[i].director) ELSE ""
                           IN  \E k \in 1..Len(words) :
                                   \/ Within(words[k], title_lower)
                                   \/ Within(words[k], director_lower)})

\* sorted(genres) for a set of genres
SortedGenres == <<"Action", "Drama">>
get_all_genres(c) ==
    SelectIdx(SortedGenres,
              {g \in 1..Len(SortedGenres) :
                  \E i \in 1..Len(c.movies) :
                      In(SortedGenres[g], c.movies[i].genres)})

\* MovieController(catalog): the state of its own the controller keeps
MovieController_init == [_current_filter |-> None, _current_search |-> ""]

get_all_movies(c) == get_all_catalog(c)

\* search_movies that hands the query to the catalog as it came
search_movies_unstripped(ctl, c, query) ==
    [controller |-> [ctl EXCEPT !._current_search = query],
     ret |-> IF query = "" THEN get_all_movies(c)
             ELSE get_movies_by_title_or_director(c, query)]

\* search_movies that also resets the active filter
search_movies_marks_filter(ctl, c, query) ==
    [controller |-> [_current_filter |-> 0, _current_search |-> strip(query)],
     ret |-> IF strip(query) = "" THEN get_all_movies(c)
             ELSE get_movies_by_title_or_director(c, strip(query))]

\* search_movies: the controller it leaves and the list it returns
search_movies(ctl, c, query) ==
    LET _current_search == strip(query)
    IN  [controller |-> [ctl EXCEPT !._current_search = _current_search],
         ret |-> IF _current_search = "" THEN get_all_movies(c)
                 ELSE get_movies_by_title_or_director(c, _current_search)]

get_available_genres(c) == get_all_genres(c)

\* grouped is a dict in insertion order: a list of (genre, movies) entries
BucketOf(grouped, genre) ==
    CHOOSE b \in 1..Len(grouped) : grouped[b].genre = genre

\* the two tests and the append for one genre of one movie
GroupOne(grouped, movie, genre) ==
    LET g1 == IF \E b \in 1..Len(grouped) : grouped[b].genre = genre
              THEN grouped
              ELSE Append(grouped, [genre |-> genre, movies |-> <<>>])
        b == BucketOf(g1, genre)
    IN  IF ~MovieIn(movie, g1[b].movies)
        THEN [g1 EXCEPT ![b].movies = Append(@, movie)]
        ELSE g1

\* the inner loop, from genre k of the movie on
RECURSIVE GroupGenres(_, _, _)
GroupGenres(grouped, movie, k) ==
    IF k > Len(movie.genres) THEN grouped
    ELSE GroupGenres(GroupOne(grouped, movie, movie.genres[k]), movie, k + 1)

\* the outer loop, from movie i of the list on
RECURSIVE GroupMovies(_, _, _)
GroupMovies(grouped, movie_list, i) ==
    IF i > Len(movie_list) THEN grouped
    ELSE GroupMovies(GroupGenres(grouped, movie_list[i], 1), movie_list, i + 1)

\* movie_list is a list of movies, or "None"
get_movies_grouped_by_genre(c, movie_list) ==
    GroupMovies(<<>>, IF movie_list = "None" THEN get_all_movies(c)
                      ELSE movie_list, 1)

get_movie_count(c) == Len(c.movies)

\* the loop of the three projections, from id k of the list on
RECURSIVE Resolve(_, _, _)
Resolve(c, ids, k) ==
    IF k > Len(ids) THEN <<>>
    ELSE LET movie == get_movie_by_system_name(c, ids[k])
         IN  IF movie # NoMovie THEN <<movie>> \o Resolve(c, ids, k + 1)
             ELSE Resolve(c, ids, k + 1)

\* get_favorite_movies going through the catalog rather than the favorites
get_favorite_movies_in_catalog_order(c, u) ==
    IF u = NoUser \/ u.favorites = <<>> THEN <<>>
    ELSE SelectIdx(c.movies,
                   {i \in 1..Len(c.movies) :
                       In(c.movies[i].system_name, u.favorites)})

get_favorite_movies(c, u) ==
    IF u = NoUser \/ u.favorites = <<>> THEN <<>>
    ELSE Resolve(c, u.favorites, 1)

get_wathclist_movie(c, u) ==
    IF u = NoUser \/ u.watchlist = <<>> THEN <<>>
    ELSE Resolve(c, u.watchlist, 1)

get_watched_movie(c, u) ==
    IF u = NoUser \/ u.watched = <<>> THEN <<>>
    ELSE Resolve(c, u.watched, 1)

\* ---------------------------------------------------------- the state
VARIABLES
    user,           \* SpecUser: the User object
    last,           \* SpecUser: the last mutator call: its name, argument,
                    \* return value and the User as it was when the call began
    heap,           \* Spec: the User objects, by reference
    users,          \* Spec: UserManager.users
    current_user,   \* Spec: UserManager.current_user
    file,           \* Spec: the content of UserManager.data_file
    clock,          \* Spec: time.time() * 1000
    mlast,          \* Spec: the last step of Spec: its name, what it
                    \* returned and what the save_users inside it returned
    catalog,        \* SpecCatalog, SpecReco: the Catalog and its file
    rec,            \* SpecReco, SpecQuery: the last query and its result
    controller,     \* SpecQuery: the MovieController's own attributes
    procs           \* SpecRace: the two processes that share the store file

uvars == <<user, last>>
mvars == <<heap, users, current_user, file, clock, mlast, procs>>
cvars == <<catalog, rec, controller>>
vars == <<uvars, mvars, cvars>>

\* ------------------------------------------------- SpecUser: one User
Call(op, arg, ret, pre) == [op |-> op, arg |-> arg, ret |-> ret, pre |-> pre]

Apply(op, arg, result) ==
    \E r \in {result} :
        /\ user' = r.u
        /\ last' = Call(op, arg, r.ret, user)
        /\ UNCHANGED <<mvars, cvars>>

AddFavorite ==
    \E c \in Films : Apply("add_favorite", c, add_favorite(user, c))

RemoveFavorite ==
    \E c \in Films : Apply("remove_favorite", c, remove_favorite(user, c))

AddToWatchlist ==
    \E c \in Films : Apply("add_to_watchlist", c, add_to_watchlist(user, c))

RemoveFromWatchlist ==
    \E c \in Films :
        Apply("remove_from_watchlist", c, remove_from_watchlist(user, c))

MarkAsWatched ==
    \E c \in Films : Apply("mark_as_watched", c, mark_as_watched(user, c))

UnmarkAsWatched ==
    \E c \in Films : Apply("unmark_as_watched", c, unmark_as_watched(user, c))

AddToLikedGenre ==
    \E g \in Genres : Apply("add_to_liked_genre", g, add_to_liked_genre(user, g))

RemoveALikedGenre ==
    \E g \in Genres :
        Apply("remove_a_liked_genre", g, remove_a_liked_genre(user, g))

UserStart ==
    /\ user = User_init("ann", "", 1)
    /\ last = Call("none", 0, FALSE, user)

\* no second process
NoProcs == <<>>

MStart ==
    /\ heap = <<>>
    /\ users = <<>>
    /\ current_user = None
    /\ file = Absent
    /\ clock = 1
    /\ mlast = [op |-> "none", ret |-> "None", saved |-> "None"]
    /\ procs = NoProcs

\* no catalog file, no recommendation asked for
NoCall == [op |-> "none", res |-> <<>>, prev |-> <<>>, at |-> 0]
CStart ==
    /\ catalog = Catalog_init(NoFile)
    /\ rec = NoCall
    /\ controller = MovieController_init

UserInit == UserStart /\ MStart /\ CStart

UserNext ==
    \/ AddFavorite
    \/ RemoveFavorite
    \/ AddToWatchlist
    \/ RemoveFromWatchlist
    \/ MarkAsWatched
    \/ UnmarkAsWatched
    \/ AddToLikedGenre
    \/ RemoveALikedGenre

SpecUser == UserInit /\ [][UserNext]_vars

\* ------------------------------------------- Spec: the UserManager
M == [heap |-> heap, users |-> users, current_user |-> current_user,
      file |-> file]

Commit(op, m0, ret, saved) ==
    \E m \in {Normalize(m0)} :
        /\ heap' = m.heap
        /\ users' = m.users
        /\ current_user' = m.current_user
        /\ file' = m.file
        /\ mlast' = [op |-> op, ret |-> ret, saved |-> saved]
        /\ UNCHANGED <<clock, procs, uvars, cvars>>

Tick ==
    /\ clock < MaxClock
    /\ clock' = clock + 1
    /\ mlast' = [op |-> "tick", ret |-> "None", saved |-> "None"]
    /\ UNCHANGED <<heap, users, current_user, file, procs, uvars, cvars>>

LoadUsers ==
    \E r \in {load_users(M, clock)} :
        Commit("load_users", r.m, Str(r.ret), "None")

SaveUsers ==
    \E outcome \in SaveOutcomes :
        \E r \in {save_users(M, outcome)} :
            Commit("save_users", r.m, Str(r.ret), Str(r.ret))

CreateUser ==
    \E username \in Usernames, outcome \in SaveOutcomes :
        \E r \in {create_user(M, username, "", clock, outcome)} :
            Commit("create_user", r.m, "User", r.saved)

\* the caller passes the User stored under some id
SetCurrentUserStored ==
    \E i \in 1..Len(users), outcome \in SaveOutcomes :
        \E r \in {set_current_user(M, users[i].ref, outcome)} :
            Commit("set_current_user", r.m, "None",
                   r.saved)

\* the caller passes a User object of its own making, User("ann", user_id=id)
SetCurrentUserOther ==
    \E id \in Ids, outcome \in SaveOutcomes :
        \E ref \in {FreeRef(heap)} :
        \E r \in {set_current_user(
                    [M EXCEPT !.heap = Store(@, ref, User_init("ann", "", id))],
                    ref, outcome)} :
            Commit("set_current_user", r.m, "None",
                   r.saved)

DeleteUser ==
    \E id \in Ids, outcome \in SaveOutcomes :
        \E r \in {delete_user(M, id, outcome)} :
            Commit("delete_user", r.m, Str(r.ret),
                   r.saved)

GetOrCreateDefaultUser ==
    \E outcome \in SaveOutcomes :
        \E r \in {get_or_create_default_user(M, clock, outcome)} :
            Commit("get_or_create_default_user", r.m, "User",
                   r.saved)

OnLogoutClicked ==
    /\ current_user # None
    /\ \E outcome \in SaveOutcomes :
           \E r \in {on_logout_clicked(M, outcome)} :
               Commit("logout", r.m, "None", r.saved)

\* Something other than this program rewrites the store file: it becomes
\* invalid JSON, or one user record loses its "username" key.
ExternalEdit ==
    /\ file.kind # "absent"
    /\ \/ file' = Garbage
       \/ /\ file.kind = "json"
          /\ \E i \in 1..Len(file.users) :
                /\ "username" \in DOMAIN file.users[i]
                /\ file' = [file EXCEPT !.users[i] =
                              [k \in DOMAIN @ \ {"username"} |-> @[k]]]
    /\ mlast' = [op |-> "external_edit", ret |-> "None", saved |-> "None"]
    /\ UNCHANGED <<heap, users, current_user, clock, procs, uvars, cvars>>

Init == UserStart /\ MStart /\ CStart

Next ==
    \/ Tick
    \/ LoadUsers
    \/ SaveUsers
    \/ CreateUser
    \/ SetCurrentUserStored
    \/ SetCurrentUserOther
    \/ DeleteUser
    \/ GetOrCreateDefaultUser
    \/ OnLogoutClicked
    \/ ExternalEdit

Spec == Init /\ [][Next]_vars

\* ------------------- SpecRestart: a store is saved, the program restarts
\* The ids a stored user can carry: a User takes any integer it is given
\* (user_id if user_id is not None), 0 included.
StoredIds == {0} \cup Ids

\* the users a manager can hold under id
StoredUsers(id) ==
    {[User_init(n, "", id) EXCEPT !.favorites = f, !.watchlist = w,
                                  !.watched = d, !.liked_genres = g] :
        n \in Usernames,
        f \in {<<>>, <<1>>}, w \in {<<>>, <<NFilms>>},
        d \in {<<>>, <<1, NFilms>>}, g \in {<<>>, <<"Drama", "Action">>}}

\* the dict keys of a manager, in insertion order
StoredKeys ==
    {<<>>} \cup {<<a>> : a \in StoredIds}
           \cup ({<<a, b>> : a \in StoredIds, b \in StoredIds}
                    \ {<<a, a>> : a \in StoredIds})

\* A manager in memory, no store file yet: users[k] is the User of id k,
\* current_user is None or one of the stored users.
RestartInit ==
    /\ UserStart
    /\ CStart
    /\ clock = 1
    /\ file = Absent
    /\ mlast = [op |-> "none", ret |-> "None", saved |-> "None"]
    /\ procs = NoProcs
    /\ \E ks \in StoredKeys :
          /\ users = [i \in 1..Len(ks) |-> [key |-> ks[i], ref |-> i]]
          /\ heap \in [1..Len(ks) -> UNION {StoredUsers(id) : id \in StoredIds}]
          /\ \A i \in 1..Len(ks) : heap[i].user_id = ks[i]
          /\ current_user \in {None} \cup (1..Len(ks))

\* save_users() writes the store
RestartSave ==
    /\ mlast.op = "none"
    /\ \E r \in {save_users(M, "ok")} :
           Commit("save_users", r.m, Str(r.ret), Str(r.ret))

\* The program starts again on the same file: UserManager() followed by
\* load_users(), as MainApp.__init__ does.
Restart ==
    /\ file.kind = "json"
    /\ \E r \in {load_users([heap |-> <<>>, users |-> <<>>,
                            current_user |-> None, file |-> file], clock)} :
           Commit("restart", r.m, Str(r.ret), "None")

RestartNext ==
    \/ RestartSave
    \/ Restart

SpecRestart == RestartInit /\ [][RestartNext]_vars

\* ------------- SpecStore: the UserManager when every write succeeds
\* Commit, keeping the argument of the call as well
CommitArg(op, arg, m0, ret, saved) ==
    \E m \in {Normalize(m0)} :
        /\ heap' = m.heap
        /\ users' = m.users
        /\ current_user' = m.current_user
        /\ file' = m.file
        /\ mlast' = [op |-> op, ret |-> ret, saved |-> saved, arg |-> arg]
        /\ UNCHANGED <<clock, procs, uvars, cvars>>

CreateUserOk ==
    \E username \in Usernames :
        \E r \in {create_user(M, username, "", clock, "ok")} :
            CommitArg("create_user", username, r.m, "User", r.saved)

\* the caller passes the User stored under some id
SetCurrentUserStoredOk ==
    \E i \in 1..Len(users) :
        \E r \in {set_current_user(M, users[i].ref, "ok")} :
            CommitArg("set_current_user",
                      [u |-> heap[users[i].ref], stored |-> TRUE],
                      r.m, "None", r.saved)

\* the caller passes a User object of its own making, User("ann", user_id=id)
SetCurrentUserOtherOk ==
    \E id \in Ids :
        \E ref \in {FreeRef(heap)}, u \in {User_init("ann", "", id)} :
        \E r \in {set_current_user([M EXCEPT !.heap = Store(@, ref, u)],
                                   ref, "ok")} :
            CommitArg("set_current_user", [u |-> u, stored |-> FALSE],
                      r.m, "None", r.saved)

\* the argument kept is the id and whether the current user had that id
DeleteUserOk ==
    \E id \in Ids :
        \E r \in {delete_user(M, id, "ok")} :
            CommitArg("delete_user",
                      [id |-> id, current |-> CurrentId(M) = id],
                      r.m, Str(r.ret), r.saved)

\* the argument kept is whether the User returned is current_user
GetOrCreateDefaultUserOk ==
    \E r \in {get_or_create_default_user(M, clock, "ok")} :
        CommitArg("get_or_create_default_user", r.ret = r.m.current_user,
                  r.m, "User", r.saved)

OnLogoutClickedOk ==
    /\ current_user # None
    /\ \E r \in {on_logout_clicked(M, "ok")} :
           CommitArg("logout", None, r.m, "None", r.saved)

StoreNext ==
    \/ Tick
    \/ LoadUsers
    \/ Restart
    \/ CreateUserOk
    \/ SetCurrentUserStoredOk
    \/ SetCurrentUserOtherOk
    \/ DeleteUserOk
    \/ GetOrCreateDefaultUserOk
    \/ OnLogoutClickedOk

SpecStore == Init /\ [][StoreNext]_vars

\* ------------------------- SpecCatalog: one Catalog loads its file
Header == <<"title", "year", "minutes", "genres", "system_name">>
Blank == <<"">>

\* the lines a catalog file is made of: the header, a blank line, a line of
\* three fields, lines of five fields and lines with a director, with years
\* and minutes that are and are not integers
CatalogLines ==
    {Header, Blank, <<"Heat", "1995", "170">>}
    \cup {<<"Alien", "1979", mi, "Drama", c>> :
            mi \in {"117", "long"}, c \in Films}
    \cup {<<"Heat", y, mi, "Action,Drama", c, "Mann">> :
            y \in {"1995", "", "soon"}, mi \in {"170", ""}, c \in Films}

CatalogFiles ==
    {NoFile}
    \cup {File(ls) : ls \in {<<>>} \cup {<<a>> : a \in CatalogLines}}
    \cup {File(<<a, b>>) : a \in CatalogLines, b \in CatalogLines}
    \cup {File(<<a, b, d>>) :
            a \in CatalogLines, b \in CatalogLines, d \in CatalogLines}

CatalogInit ==
    /\ UserStart
    /\ MStart
    /\ rec = NoCall
    /\ controller = MovieController_init
    /\ catalog \in {Catalog_init(f) : f \in CatalogFiles}

LoadFromCsv ==
    /\ catalog.load = "none"
    /\ catalog' = load_from_csv(catalog)
    /\ UNCHANGED <<rec, controller, uvars, mvars>>

CatalogNext ==
    \/ LoadFromCsv

SpecCatalog == CatalogInit /\ [][CatalogNext]_vars

\* -------------- SpecReco: recommendations for one user of one catalog
\* genres and director of the catalog lines
RecoProfiles ==
    {<<"Action", "Mann">>, <<"Drama", "Mann, Scott">>, <<"Action,Drama", "">>}

RecoLines ==
    {<<"Heat", "1995", "170", p[1], c, p[2]>> : c \in Films, p \in RecoProfiles}

\* files of up to three well-formed lines, two of which may carry the same
\* system_name
RecoFiles ==
    {File(ls) : ls \in {<<>>} \cup {<<a>> : a \in RecoLines}}
    \cup {File(<<a, b>>) : a \in RecoLines, b \in RecoLines}
    \cup {File(<<a, b, d>>) : a \in RecoLines, b \in RecoLines, d \in RecoLines}

\* lists of up to two different films
FilmLists ==
    {<<>>} \cup {<<a>> : a \in Films}
           \cup ({<<a, b>> : a \in Films, b \in Films} \ {<<a, a>> : a \in Films})

RecoUsers ==
    {[User_init("ann", "", 1) EXCEPT !.liked_genres = g, !.favorites = f,
                                     !.watched = d, !.watchlist = w] :
        g \in {<<>>, <<"Action">>, <<"Drama", "Action">>},
        f \in FilmLists, d \in FilmLists, w \in {<<>>, <<NFilms>>}}

\* the catalog has loaded its file; the user is as the store gave it
RecoInit ==
    /\ MStart
    /\ catalog \in {load_from_csv(Catalog_init(f)) : f \in RecoFiles}
    /\ user \in RecoUsers
    /\ last = Call("none", 0, FALSE, user)
    /\ rec = NoCall
    /\ controller = MovieController_init

GetRecommendedMovies ==
    /\ rec.op = "none"
    /\ rec' = [op |-> "get", res |-> get_recommended_movies(catalog, user),
               prev |-> <<>>, at |-> 0]
    /\ UNCHANGED <<catalog, controller, uvars, mvars>>

\* the user marks the movie at place i of the recommendations as watched and
\* asks for the recommendations again
MarkRecommendedAsWatched ==
    /\ rec.op # "none"
    /\ \E i \in 1..Len(rec.res) :
       \E r \in {mark_as_watched(user, rec.res[i].system_name)} :
           /\ user' = r.u
           /\ last' = Call("mark_as_watched", rec.res[i].system_name, r.ret,
                           user)
           /\ rec' = [op |-> "mark",
                      res |-> get_recommended_movies(catalog, r.u),
                      prev |-> rec.res, at |-> i]
    /\ UNCHANGED <<catalog, controller, mvars>>

RecoNext ==
    \/ GetRecommendedMovies
    \/ MarkRecommendedAsWatched

SpecReco == RecoInit /\ [][RecoNext]_vars

\* ---------- SpecQuery: the queries of a MovieController and its Catalog
\* well-formed lines: one or two genres, a genre written twice, with and
\* without a director
QueryLines ==
    {<<"Heat", "1995", "170", "Action,Drama", c, "Mann">> : c \in Films}
    \cup {<<"Alien", "1979", "117", "Drama", 1, "Scott">>,
          <<"Heat", "1995", "170", "Action,Action", NFilms, "">>}

\* files of up to two lines, which may carry the same system_name
QueryFiles ==
    {File(ls) : ls \in {<<>>} \cup {<<a>> : a \in QueryLines}}
    \cup {File(<<a, b>>) : a \in QueryLines, b \in QueryLines}

\* nobody logged in, or a user with lists of ids the catalog may not hold
QueryUsers ==
    {NoUser}
    \cup {[User_init("ann", "", 1) EXCEPT !.favorites = f, !.watchlist = p[1],
                                          !.watched = p[2],
                                          !.liked_genres = p[3]] :
            f \in {<<>>, <<1>>, <<NFilms, 1>>},
            p \in {<<<<>>, <<>>, <<>>>>,
                   <<<<NFilms, 1>>, <<>>, <<"Drama", "Action">>>>,
                   <<<<1>>, <<NFilms>>, <<"Action">>>>}}

\* what the search field can hold
QueryTexts == {"", " ", " Heat ", "mann alien", "al", "x"}

\* the genre lists asked for
GenreLists == {<<>>, <<"Action">>, <<"Drama">>, <<"Action", "Drama">>}

QueryInit ==
    /\ MStart
    /\ catalog \in {load_from_csv(Catalog_init(f)) : f \in QueryFiles}
    /\ user \in QueryUsers
    /\ last = Call("none", 0, FALSE, user)
    /\ rec = NoCall
    /\ controller = MovieController_init

\* a query that leaves everything but the record of the call as it was
Answer(op, arg, ret) ==
    /\ rec' = [op |-> op, res |-> ret, prev |-> arg, at |-> 0]
    /\ UNCHANGED <<catalog, controller, uvars, mvars>>

GetAllMovies ==
    \E ret \in {get_all_movies(catalog)} :
        Answer("get_all_movies", <<>>, ret)

SearchMovies ==
    \E query \in QueryTexts :
        \E r \in {search_movies(controller, catalog, query)} :
            /\ controller' = r.controller
            /\ rec' = [op |-> "search_movies", res |-> r.ret, prev |-> query,
                       at |-> 0]
            /\ UNCHANGED <<catalog, uvars, mvars>>

GetAvailableGenres ==
    \E ret \in {get_available_genres(catalog)} :
        Answer("get_available_genres", <<>>, ret)

\* grouping the whole catalog, or the list another query returned
GetMoviesGroupedByGenre ==
    \E movie_list \in {"None",
                       get_movies_from_multiple_genres(catalog, <<"Action">>),
                       get_favorite_movies(catalog, user)} :
        \E ret \in {get_movies_grouped_by_genre(catalog, movie_list)} :
            Answer("get_movies_grouped_by_genre", movie_list, ret)

GetMovieCount ==
    \E ret \in {get_movie_count(catalog)} :
        Answer("get_movie_count", <<>>, ret)

QueryRecommendedMovies ==
    \E ret \in {get_recommended_movies(catalog, user)} :
        Answer("get_recommended_movies", <<>>, ret)

GetFavoriteMovies ==
    \E ret \in {get_favorite_movies(catalog, user)} :
        Answer("get_favorite_movies", <<>>, ret)

GetWathclistMovie ==
    \E ret \in {get_wathclist_movie(catalog, user)} :
        Answer("get_wathclist_movie", <<>>, ret)

GetWatchedMovie ==
    \E ret \in {get_watched_movie(catalog, user)} :
        Answer("get_watched_movie", <<>>, ret)

GetMoviesFromMultipleGenres ==
    \E genres_list \in GenreLists :
        \E ret \in {get_movies_from_multiple_genres(catalog, genres_list)} :
            Answer("get_movies_from_multiple_genres", genres_list, ret)

GetMoviesByTitle ==
    \E keywords \in QueryTexts :
        \E ret \in {get_movies_by_title(catalog, keywords)} :
            Answer("get_movies_by_title", keywords, ret)

GetMoviesByTitleOrDirector ==
    \E keywords \in QueryTexts :
        \E ret \in {get_movies_by_title_or_director(catalog, keywords)} :
            Answer("get_movies_by_title_or_director", keywords, ret)

QueryNext ==
    \/ GetAllMovies
    \/ SearchMovies
    \/ GetAvailableGenres
    \/ GetMoviesGroupedByGenre
    \/ GetMovieCount
    \/ QueryRecommendedMovies
    \/ GetFavoriteMovies
    \/ GetWathclistMovie
    \/ GetWatchedMovie
    \/ GetMoviesFromMultipleGenres
    \/ GetMoviesByTitle
    \/ GetMoviesByTitleOrDirector

SpecQuery == QueryInit /\ [][QueryNext]_vars

\* ------------------- SpecLogin: logins, logouts and deleted accounts
\* the argument kept is the text of the dialog
OnLogin ==
    \E text \in LoginTexts, outcome \in SaveOutcomes :
        \E r \in {on_login(M, text, clock, outcome)} :
            CommitArg("on_login", text, r.m,
                      IF r.ret = None THEN "None" ELSE "User", r.saved)

LoginNext ==
    \/ Tick
    \/ OnLogin
    \/ OnLogoutClickedOk
    \/ DeleteUserOk

SpecLogin == Init /\ [][LoginNext]_vars

\* -------- SpecClick: the like, watchlist and watched buttons are clicked
\* the movie of the card and of the detail window
ShownFilms == {NFilms}

\* the argument kept is the movie and whether somebody was logged in; what
\* is kept as returned is the list of the signals emitted
Clicked(op, film_code, r) ==
    CommitArg(op, [film_code |-> film_code, logged |-> current_user # None],
              r.m, r.events, r.saved)

CardLikeClicked ==
    \E film_code \in ShownFilms :
        \E r \in {FilmCard_on_like_clicked(M, film_code, "ok")} :
            Clicked("FilmCard.on_like_clicked", film_code, r)

LikeClicked ==
    \E film_code \in ShownFilms :
        \E r \in {on_like_clicked(M, film_code, "ok")} :
            Clicked("on_like_clicked", film_code, r)

WatchlistClicked ==
    \E film_code \in ShownFilms :
        \E r \in {on_watchlist_clicked(M, film_code, "ok")} :
            Clicked("on_watchlist_clicked", film_code, r)

WatchedClicked ==
    \E film_code \in ShownFilms :
        \E r \in {on_watched_clicked(M, film_code, "ok")} :
            Clicked("on_watched_clicked", film_code, r)

ClickNext ==
    \/ Tick
    \/ OnLogin
    \/ OnLogoutClickedOk
    \/ CardLikeClicked
    \/ LikeClicked
    \/ WatchlistClicked
    \/ WatchedClicked

SpecClick == Init /\ [][ClickNext]_vars

\* ------------ SpecRace: two processes save to the same store file
Procs == {1, 2}

\* the films the two processes like and unlike
RaceFilms == {1, NFilms}

\* the memory of a process that has loaded a store of one user, who is current
Loaded(favorites) ==
    [heap |-> <<[User_init("ann", "", 1) EXCEPT !.favorites = favorites]>>,
     users |-> <<[key |-> 1, ref |-> 1]>>,
     current_user |-> 1,
     file |-> Absent]

\* both processes have loaded the same file; pc is where a process is in
\* save_users, data the text it is about to write, last the process whose
\* save_users returned last and written the text it wrote
RaceInit ==
    /\ UserStart
    /\ CStart
    /\ heap = <<>>
    /\ users = <<>>
    /\ current_user = None
    /\ clock = 1
    /\ mlast = [op |-> "none", ret |-> "None", saved |-> "None"]
    /\ \E favorites \in {<<>>, <<1>>, <<1, NFilms>>} :
          /\ file = TextFile(Text(StoreData(Loaded(favorites))))
          /\ procs = [m |-> [p \in Procs |-> Loaded(favorites)],
                      pc |-> [p \in Procs |-> "idle"],
                      data |-> [p \in Procs |-> <<>>],
                      last |-> 0,
                      written |-> <<>>]

\* a process likes or unlikes a film: its own memory changes
RaceMutate ==
    \E p \in Procs, film_code \in RaceFilms :
        /\ procs.pc[p] = "idle"
        /\ \E u \in {IF is_favorite(CurrentUser(procs.m[p]), film_code)
                     THEN remove_favorite(CurrentUser(procs.m[p]), film_code).u
                     ELSE add_favorite(CurrentUser(procs.m[p]), film_code).u} :
               procs' = [procs EXCEPT !.m[p] = SetUser(@, u)]
        /\ UNCHANGED <<heap, users, current_user, file, clock, mlast,
                       uvars, cvars>>

\* save_users up to the open: data is built, the file is opened for writing
RaceSaveOpen ==
    \E p \in Procs :
        /\ procs.pc[p] = "idle"
        /\ procs' = [procs EXCEPT !.pc[p] = "open",
                                  !.data[p] = Text(StoreData(procs.m[p]))]
        /\ file' = open_w(file)
        /\ UNCHANGED <<heap, users, current_user, clock, mlast, uvars, cvars>>

\* the end of the with block: the text is written and the file closed
RaceSaveClose ==
    \E p \in Procs :
        /\ procs.pc[p] = "open"
        /\ file' = write_close(file, procs.data[p])
        /\ procs' = [procs EXCEPT !.pc[p] = "idle", !.data[p] = <<>>,
                                  !.last = p, !.written = procs.data[p]]
        /\ UNCHANGED <<heap, users, current_user, clock, mlast, uvars, cvars>>

RaceNext ==
    \/ RaceMutate
    \/ RaceSaveOpen
    \/ RaceSaveClose

SpecRace == RaceInit /\ [][RaceNext]_vars

\* ------------------------------------------------ properties of User
AddOps == {"add_favorite", "add_to_watchlist", "mark_as_watched",
           "add_to_liked_genre"}
RemoveOps == {"remove_favorite", "remove_from_watchlist", "unmark_as_watched",
              "remove_a_liked_genre"}
Collections == {"favorites", "watchlist", "watched", "liked_genres"}

\* the collection a mutator is named for
CollOf(op) ==
    CASE op \in {"add_favorite", "remove_favorite"} -> "favorites"
      [] op \in {"add_to_watchlist", "remove_from_watchlist"} -> "watchlist"
      [] op \in {"mark_as_watched", "unmark_as_watched"} -> "watched"
      [] op \in {"add_to_liked_genre", "remove_a_liked_genre"} -> "liked_genres"

Called == last.op # "none"

\* C2 as claimed: whenever mark_as_watched(id) returns, whatever it returns,
\* id is not in watchlist.
C2_Unconditional ==
    last.op = "mark_as_watched" => ~In(last.arg, user.watchlist)

\* C2, amended: mark_as_watched(id) takes id off the watchlist exactly when it
\* returns True (id was not yet watched); when id is already watched it
\* returns False and changes nothing, so an id that is in both watched and
\* watchlist stays in watchlist.
C2_RemovesWhenMarked ==
    last.op = "mark_as_watched" =>
        /\ last.ret = ~In(last.arg, last.pre.watched)
        /\ last.ret => ~In(last.arg, user.watchlist)
        /\ ~last.ret => user = last.pre

C2_Witness ==
    /\ last.op = "mark_as_watched"
    /\ ~last.ret
    /\ In(last.arg, last.pre.watched)
    /\ In(last.arg, user.watchlist)

\* C3: after mark_as_watched(id) on a user with id in watchlist and not in
\* watched, the call has returned True, id is in watched and not in watchlist,
\* and a second mark_as_watched(id) returns False and leaves the user as the
\* first call left it.
C3_MarkTwice ==
    (/\ last.op = "mark_as_watched"
     /\ In(last.arg, last.pre.watchlist)
     /\ ~In(last.arg, last.pre.watched))
    => /\ last.ret
       /\ In(last.arg, user.watched)
       /\ ~In(last.arg, user.watchlist)
       /\ user.watched = Append(last.pre.watched, last.arg)
       /\ mark_as_watched(user, last.arg) = Result(user, FALSE)

C3_Witness ==
    /\ last.op = "mark_as_watched"
    /\ In(last.arg, last.pre.watchlist)
    /\ ~In(last.arg, last.pre.watched)
    /\ Len(last.pre.watchlist) = 2
    /\ mark_as_watched(user, last.arg).ret = FALSE

\* C4: in each collection, adding a present value returns False and changes
\* nothing, adding an absent value returns True and appends it last, removing
\* an absent value returns False and changes nothing, removing a present
\* value returns True.
C4_AddRemoveContract ==
    Called =>
        LET f == CollOf(last.op)
            present == In(last.arg, last.pre[f])
        IN  /\ (last.op \in AddOps /\ present) =>
                    (~last.ret /\ user = last.pre)
            /\ (last.op \in AddOps /\ ~present) =>
                    (last.ret /\ user[f] = Append(last.pre[f], last.arg))
            /\ (last.op \in RemoveOps /\ ~present) =>
                    (~last.ret /\ user = last.pre)
            /\ (last.op \in RemoveOps /\ present) => last.ret

C4_Witness ==
    /\ last.op = "add_to_liked_genre"
    /\ last.ret
    /\ Len(last.pre.liked_genres) = 1
    /\ Len(user.liked_genres) = 2

\* C5: no collection ever holds a value twice, and after a remove that
\* returned True the matching is_* query answers False.
C5_NoDuplicates ==
    /\ \A f \in Collections : NoDup(user[f])
    /\ (last.op = "remove_favorite" /\ last.ret) =>
            ~is_favorite(user, last.arg)
    /\ (last.op = "remove_from_watchlist" /\ last.ret) =>
            ~is_in_watchlist(user, last.arg)
    /\ (last.op = "unmark_as_watched" /\ last.ret) =>
            ~is_watched(user, last.arg)
    /\ (last.op = "remove_a_liked_genre" /\ last.ret) =>
            ~is_in_liked_genre(user, last.arg)

C5_Witness ==
    /\ last.op = "remove_favorite"
    /\ last.ret
    /\ Len(last.pre.favorites) = 2
    /\ \A f \in Collections : Len(user[f]) >= 1

\* C6 as claimed: for any id, already a favorite or not, add_favorite(id)
\* followed by remove_favorite(id) leaves the same set of favorites.
C6_InverseForAnyId ==
    last.op = "add_favorite" =>
        Elems(remove_favorite(user, last.arg).u.favorites)
            = Elems(last.pre.favorites)

\* C6, amended: for an id that is not yet a favorite, add_favorite(id) followed
\* by remove_favorite(id) restores the favorites list exactly; for an id that
\* is already a favorite the add changes nothing and the remove takes id out.
C6_InverseWhenAbsent ==
    last.op = "add_favorite" =>
        LET r == remove_favorite(user, last.arg)
        IN  /\ r.ret
            /\ ~In(last.arg, last.pre.favorites) => r.u = last.pre
            /\ In(last.arg, last.pre.favorites) =>
                    /\ ~last.ret
                    /\ Elems(r.u.favorites)
                          = Elems(last.pre.favorites) \ {last.arg}

C6_Witness ==
    /\ last.op = "add_favorite"
    /\ last.ret
    /\ Len(last.pre.favorites) = 1
    /\ remove_favorite(user, last.arg).u.favorites = last.pre.favorites

\* C7: a mutator changes only the collection it is named for; user_id,
\* username and the other three collections stay as they were, except that
\* mark_as_watched may take its id off the watchlist; unmark_as_watched
\* leaves the watchlist alone.
C7_Frame ==
    Called =>
        /\ user.user_id = last.pre.user_id
        /\ user.username = last.pre.username
        /\ \A f \in Collections \ {CollOf(last.op)} :
                \/ user[f] = last.pre[f]
                \/ /\ last.op = "mark_as_watched"
                   /\ f = "watchlist"
                   /\ last.ret
                   /\ In(last.arg, last.pre.watchlist)
                   /\ user.watchlist = ListRemove(last.pre.watchlist, last.arg)

C7_Witness ==
    /\ last.op = "unmark_as_watched"
    /\ last.ret
    /\ ~In(last.arg, user.watchlist)
    /\ \A f \in Collections \ {"watched"} : Len(user[f]) >= 1

\* ----------------------------------------- properties of UserManager
\* C1: current_user is None or is the very User object stored in users under
\* its own user_id.
C1_CurrentUserIsStored ==
    \/ current_user = None
    \/ \E i \in 1..Len(users) :
           /\ users[i].key = heap[current_user].user_id
           /\ users[i].ref = current_user

\* C8: a create_user step returns a user whose id was no key of users before,
\* adds exactly one entry and keeps every earlier one, makes the new user
\* current_user and, when its write succeeds, leaves it in the store file.
C8_CreateUserFresh ==
    [][mlast'.op = "create_user" =>
        /\ current_user' # None
        /\ heap'[current_user'].user_id \notin Keys(users)
        /\ Len(users') = Len(users) + 1
        /\ \A i \in 1..Len(users) : \E j \in 1..Len(users') :
               /\ users'[j].key = users[i].key
               /\ heap'[users'[j].ref] = heap[users[i].ref]
        /\ \E j \in 1..Len(users') :
               /\ users'[j].key = heap'[current_user'].user_id
               /\ users'[j].ref = current_user'
        /\ mlast'.saved = "True" =>
               /\ file'.kind = "json"
               /\ \E k \in 1..Len(file'.users) :
                      file'.users[k] = to_dict(heap'[current_user'])
    ]_vars

\* C9: a load_users step that finds the store file present and returns False
\* leaves users and current_user as they were.
C9_FailedLoadKeepsMemory ==
    [][(/\ mlast'.op = "load_users"
        /\ mlast'.ret = "False"
        /\ file.kind # "absent")
       => /\ users' = users
          /\ heap' = heap
          /\ current_user' = current_user
    ]_vars

\* C10: a save_users step that returns False, made while the store file holds
\* a saved store, leaves users, current_user and the store file as they were.
C10_FailedSaveKeepsStore ==
    [][(/\ mlast'.op = "save_users"
        /\ mlast'.ret = "False"
        /\ file.kind = "json")
       => /\ users' = users
          /\ heap' = heap
          /\ current_user' = current_user
          /\ file' = file
    ]_vars


\* ------------------------------------------ properties of the store
\* the stored User of id k
UserOf(m, k) == m.heap[DictGet(m.users, k)]

\* two managers hold the same users and the same current user
SameStore(a, b) ==
    /\ Keys(a.users) = Keys(b.users)
    /\ \A k \in Keys(a.users) :
          /\ k \in Keys(b.users)
          /\ UserOf(a, k).username = UserOf(b, k).username
          /\ UserOf(a, k).favorites = UserOf(b, k).favorites
          /\ UserOf(a, k).watchlist = UserOf(b, k).watchlist
          /\ UserOf(a, k).watched = UserOf(b, k).watched
          /\ UserOf(a, k).liked_genres = UserOf(b, k).liked_genres
    /\ CurrentId(a) = CurrentId(b)

\* C11: a restart that follows a successful save_users yields a manager with
\* the same user ids, each user with the same username, favorites,
\* watchlist, watched and liked_genres, and a current user of the same id
\* (None when none was set).
C11_RestartRoundTrip ==
    [][(/\ mlast.op = "save_users"
        /\ mlast.saved = "True"
        /\ mlast'.op = "restart")
       => SameStore(M, M')
    ]_vars


\* the keys of a user record that hold lists, and the attribute each fills
ListKeys == {"favorites", "watchlist", "watched", "likedGenres"}
AttrOf(key) == IF key = "likedGenres" THEN "liked_genres" ELSE key

\* a record without the keys in K
Without(data, K) == [k \in DOMAIN data \ K |-> data[k]]

\* C12: from_dict(u.to_dict()) has the user_id, username, favorites,
\* watchlist, watched and liked_genres of u; when list keys are missing from
\* the record the lists they fill are empty and the rest is as in u.
C12_DictRoundTrip ==
    \A K \in SUBSET ListKeys :
        \E v \in {from_dict(Without(to_dict(user), K), clock)} :
            /\ v.user_id = user.user_id
            /\ v.username = user.username
            /\ \A k \in ListKeys :
                  v[AttrOf(k)] = IF k \in K THEN <<>> ELSE user[AttrOf(k)]

C12_Witness ==
    /\ \A k \in ListKeys : user[AttrOf(k)] # <<>>
    /\ from_dict(to_dict(user), clock).liked_genres = user.liked_genres
    /\ from_dict(Without(to_dict(user), {"watched"}), clock).watched = <<>>


\* the entries of users in dict order, each key with the object it maps to
Entries(m) ==
    [i \in 1..Len(m.users) |->
        [key |-> m.users[i].key, obj |-> m.heap[m.users[i].ref]]]

\* current_user is one of the objects users holds
IsStored(m) == \E i \in 1..Len(m.users) : m.users[i].ref = m.current_user

\* the two managers have the same object as current user, or both none
SameCurrent(a, b) ==
    /\ a.current_user = None <=> b.current_user = None
    /\ a.current_user # None =>
          /\ a.heap[a.current_user] = b.heap[b.current_user]
          /\ IsStored(a) <=> IsStored(b)

\* C13: set_current_user(u) with u.user_id a key of users makes u the current
\* user, leaves users as it was and rewrites the store with the new state;
\* with u.user_id not a key it changes neither users, current_user nor the
\* store file.
C13_SetCurrentUser ==
    [][mlast'.op = "set_current_user" =>
        IF mlast'.arg.u.user_id \in Keys(users)
        THEN /\ current_user' # None
             /\ heap'[current_user'] = mlast'.arg.u
             /\ IsStored(M') <=> mlast'.arg.stored
             /\ Entries(M') = Entries(M)
             /\ file' = StoreData(M')
             /\ file'.current_user_id = mlast'.arg.u.user_id
        ELSE /\ users' = users
             /\ heap' = heap
             /\ current_user' = current_user
             /\ file' = file
    ]_vars

\* set_current_user has made one of two stored users the current user
C13_Witness ==
    /\ mlast.op = "set_current_user"
    /\ mlast.arg.stored
    /\ Len(users) > 1
    /\ heap[current_user] = mlast.arg.u
    /\ file.kind = "json"
    /\ file.current_user_id = mlast.arg.u.user_id

\* C14: delete_user(id) with id not a key of users returns False and leaves
\* users, current_user and the store file as they were; with id a key it
\* returns True, removes that entry and no other, sets current_user to None
\* if the current user had that id and leaves it alone if not, and rewrites
\* the store with the new state.
C14_DeleteUser ==
    [][mlast'.op = "delete_user" =>
        IF mlast'.arg.id \notin Keys(users)
        THEN /\ mlast'.ret = "False"
             /\ users' = users
             /\ heap' = heap
             /\ current_user' = current_user
             /\ file' = file
        ELSE /\ mlast'.ret = "True"
             /\ \E i \in 1..Len(users) :
                   /\ users[i].key = mlast'.arg.id
                   /\ Entries(M') = SubSeq(Entries(M), 1, i - 1)
                                      \o SubSeq(Entries(M), i + 1, Len(users))
             /\ IF CurrentId(M) # None /\ CurrentId(M) = mlast'.arg.id
                THEN current_user' = None
                ELSE SameCurrent(M, M')
             /\ file' = StoreData(M')
    ]_vars

\* delete_user has removed the current user while another user stays stored
C14_Witness ==
    /\ mlast.op = "delete_user"
    /\ mlast.ret = "True"
    /\ mlast.arg.current
    /\ current_user = None
    /\ Len(users) > 0
    /\ file.kind = "json"
    /\ file.current_user_id = None


\* C15: get_or_create_default_user returns the object that is current_user
\* when it returns, and that object is one users holds; with a current user
\* set it is that user and nothing changes, with none set and users not
\* empty it is a user already stored and users is unchanged, and only with
\* users empty is a user created.
C15_DefaultUser ==
    [][mlast'.op = "get_or_create_default_user" =>
        /\ mlast'.arg
        /\ current_user' # None
        /\ IsStored(M')
        /\ current_user # None => SameCurrent(M, M')
        /\ (current_user # None \/ Len(users) > 0) => Entries(M') = Entries(M)
        /\ (current_user = None /\ Len(users) = 0) => Len(users') = 1
    ]_vars


\* ---------------------------------------- properties of the Catalog
\* C16: after load_from_csv has returned, no two movies of the catalog have
\* the same system_name.
C16_UniqueSystemName ==
    catalog.load = "returned" =>
        \A i, j \in 1..Len(catalog.movies) :
            catalog.movies[i].system_name = catalog.movies[j].system_name
                => i = j

\* a line a Movie can be built from: at least five fields, a year that is
\* empty or an integer, minutes that are an integer
WellFormed(line) ==
    /\ Len(line) >= 5
    /\ line[2] = "" \/ line[2] \in IntTexts
    /\ line[3] \in IntTexts

\* the lines of the file after its header
Body(f) ==
    IF f.lines # <<>> /\ f.lines[1] = Header THEN Tail(f.lines) ELSE f.lines

\* C17: for a file that exists load_from_csv returns, whatever its lines,
\* and the catalog then holds the Movie of every well-formed line, in file
\* order, the other lines being skipped.
C17_BadLinesSkipped ==
    (catalog.file.exists /\ catalog.load # "none") =>
        /\ catalog.load = "returned"
        /\ \E good \in {SelectIdx(Body(catalog.file),
                                  {i \in 1..Len(Body(catalog.file)) :
                                      WellFormed(Body(catalog.file)[i])})} :
              /\ Len(catalog.movies) = Len(good)
              /\ \A k \in 1..Len(good) : catalog.movies[k] = MovieOf(good[k])


\* ------------------------------------ properties of MovieController
\* C20: for a user with no liked genres and no favorites
\* get_recommended_movies returns the empty list.
C20_NoPreferencesNoMovies ==
    (rec.op # "none" /\ user.liked_genres = <<>> /\ user.favorites = <<>>)
        => rec.res = <<>>

C20_Witness ==
    /\ rec.op = "get"
    /\ user.liked_genres = <<>> /\ user.favorites = <<>>
    /\ user.watched # <<>> /\ user.watchlist # <<>>
    /\ Len(catalog.movies) > 1
    /\ rec.res = <<>>


\* C18: a recommendation never holds a movie whose system_name is in
\* user.watched; and when the user marks the movie at one place of the
\* recommendations as watched, the new recommendations are the old ones
\* without that place, the rest in the same order.
C18_WatchedNotRecommended ==
    /\ rec.op # "none" =>
          \A k \in 1..Len(rec.res) : ~In(rec.res[k].system_name, user.watched)
    /\ rec.op = "mark" =>
          rec.res = SubSeq(rec.prev, 1, rec.at - 1)
                      \o SubSeq(rec.prev, rec.at + 1, Len(rec.prev))

\* the directors of a movie: the comma-split, trimmed names of its field
Directors(movie) == {d \in Elems(SplitComma(movie.director)) : d # ""}

\* the places of the catalog whose movie has one of the user's liked genres
GenreMatches(c, u) ==
    {i \in 1..Len(c.movies) :
        Elems(c.movies[i].genres) \cap Elems(u.liked_genres) # {}}

\* the places of the remaining movies that share a director with a movie
\* of the catalog that is one of the user's favorites
DirectorMatches(c, u) ==
    {i \in 1..Len(c.movies) \ GenreMatches(c, u) :
        \E j \in 1..Len(c.movies) :
            /\ In(c.movies[j].system_name, u.favorites)
            /\ Directors(c.movies[i]) \cap Directors(c.movies[j]) # {}}

\* C19: the recommendations are the genre matches in catalog order, then the
\* director matches in catalog order, without the movies the user has
\* watched; no system_name is there twice.
C19_RecommendationRule ==
    rec.op # "none" =>
        /\ \E all \in {SelectIdx(catalog.movies, GenreMatches(catalog, user))
                       \o SelectIdx(catalog.movies,
                                    DirectorMatches(catalog, user))} :
              rec.res = SelectIdx(all, {k \in 1..Len(all) :
                                  ~In(all[k].system_name, user.watched)})
        /\ \A i, j \in 1..Len(rec.res) :
              rec.res[i].system_name = rec.res[j].system_name => i = j


\* the store file holds the users and the current user of memory; a manager
\* that never wrote has no file and holds nothing
Persisted(m) ==
    \/ m.file = StoreData(m)
    \/ m.file = Absent /\ m.users = <<>> /\ m.current_user = None

\* C28: when every write succeeds, after create_user, set_current_user,
\* delete_user or get_or_create_default_user has returned the store file
\* holds the users and the current user of memory.
C28_StoreFollowsMemory ==
    [][mlast'.op \in {"create_user", "set_current_user", "delete_user",
                      "get_or_create_default_user"}
       => Persisted(M')
    ]_vars


\* no id is in both watched and watchlist
Disjoint(u) == \A c \in Films : ~(In(c, u.watched) /\ In(c, u.watchlist))

\* C29 as claimed: in every state the mutators reach from a new User no id
\* is in both watched and watchlist.
C29_WatchedNotInWatchlist == Disjoint(user)

\* C29: every mutator call made when no id is in both lists leaves no id in
\* both, except add_to_watchlist(id) for an id that is watched; that call
\* returns True and leaves id in both.
C29_OnlyAddToWatchlistBreaks ==
    (Called /\ Disjoint(last.pre)) =>
        IF last.op = "add_to_watchlist" /\ In(last.arg, last.pre.watched)
        THEN /\ last.ret = TRUE
             /\ In(last.arg, user.watched) /\ In(last.arg, user.watchlist)
        ELSE Disjoint(user)

\* add_to_watchlist has been called for a watched id while no id was in both
C29_Witness ==
    /\ last.op = "add_to_watchlist"
    /\ In(last.arg, last.pre.watched)
    /\ Disjoint(last.pre)
    /\ In(last.arg, user.watchlist)


\* the usernames of the stored users, in dict order
StoredNames(m) == [i \in 1..Len(m.users) |-> m.heap[m.users[i].ref].username]

\* C30: after every login, logout and delete_user no two stored users have
\* the same username; on_login with a name some stored user has makes that
\* user current and leaves users as it was, and creates a user only for a
\* name no stored user has.
C30_UniqueUsernames ==
    [][/\ NoDup(StoredNames(M'))
       /\ (mlast'.op = "on_login" /\ strip(mlast'.arg) # "") =>
             /\ current_user' # None
             /\ heap'[current_user'].username = strip(mlast'.arg)
             /\ IsStored(M')
             /\ In(strip(mlast'.arg), StoredNames(M))
                   => Entries(M') = Entries(M)
    ]_vars

\* a login under a name that has an account, made while another account was
\* current
C30_Witness ==
    /\ mlast.op = "on_login"
    /\ mlast.arg = " ann "
    /\ Len(users) > 1
    /\ heap[current_user].username = "ann"
    /\ heap[users[1].ref].username = "bob"


\* ------------------------------------ properties of the queries
\* the n-th smallest of a set of places
Nth(idx, n) == CHOOSE i \in idx : Cardinality({j \in idx : j < i}) = n - 1

\* the id list a projection reads
IdsOf(u, op) ==
    IF u = NoUser THEN <<>>
    ELSE CASE op = "get_favorite_movies" -> u.favorites
           [] op = "get_wathclist_movie" -> u.watchlist
           [] op = "get_watched_movie" -> u.watched

\* res holds, in the order of ids, the catalog movie of every id that resolves
Projection(c, ids, res) ==
    LET keep == {k \in 1..Len(ids) :
                    get_movie_by_system_name(c, ids[k]) # NoMovie}
    IN  /\ Len(res) = Cardinality(keep)
        /\ \A n \in 1..Len(res) :
               res[n] = get_movie_by_system_name(c, ids[Nth(keep, n)])

\* C21: get_favorite_movies, get_wathclist_movie and get_watched_movie return,
\* in the order of the user's id list, the catalog movie of every id that
\* resolves and nothing for the others, and leave the user as it was.
C21_Projections ==
    [][rec'.op \in {"get_favorite_movies", "get_wathclist_movie",
                    "get_watched_movie"}
       => /\ Projection(catalog, IdsOf(user, rec'.op), rec'.res)
          /\ user' = user
    ]_vars

\* favorites of two ids, the first of which the catalog does not hold
C21_Witness ==
    /\ rec.op = "get_favorite_movies"
    /\ user # NoUser
    /\ user.favorites = <<NFilms, 1>>
    /\ Len(rec.res) = 1
    /\ rec.res[1].system_name = 1

RECURSIVE Total(_)
Total(ns) == IF ns = <<>> THEN 0 ELSE Head(ns) + Total(Tail(ns))

\* C22: the buckets of get_movies_grouped_by_genre hold as many entries as
\* the movies of the input list have genres.
C22_GroupedCounts ==
    rec.op = "get_movies_grouped_by_genre" =>
        LET movie_list == IF rec.prev = "None" THEN catalog.movies
                          ELSE rec.prev
        IN  Total([b \in 1..Len(rec.res) |-> Len(rec.res[b].movies)])
              = Total([i \in 1..Len(movie_list) |-> Len(movie_list[i].genres)])

\* C23: get_movies_from_multiple_genres returns the catalog entries that have
\* one of the given genres, in catalog order, each entry once, and nothing
\* for an empty genre list.
C23_AnyOfGenres ==
    rec.op = "get_movies_from_multiple_genres" =>
        LET idx == {i \in 1..Len(catalog.movies) :
                       Elems(rec.prev) \cap Elems(catalog.movies[i].genres)
                         # {}}
        IN  /\ Len(rec.res) = Cardinality(idx)
            /\ \A n \in 1..Len(rec.res) :
                   rec.res[n] = catalog.movies[Nth(idx, n)]
            /\ rec.prev = <<>> => rec.res = <<>>

\* two genres asked for, a movie that has both and a movie that has one
C23_Witness ==
    /\ rec.op = "get_movies_from_multiple_genres"
    /\ rec.prev = <<"Action", "Drama">>
    /\ Len(rec.res) = 2
    /\ rec.res[1].genres = <<"Action", "Drama">>
    /\ rec.res[2].genres = <<"Drama">>

\* C24: search_movies returns all the movies for a query that is empty once
\* stripped, and what get_movies_by_title_or_director returns for the
\* stripped query otherwise; get_movies_by_title and
\* get_movies_by_title_or_director return nothing for the empty query.
C24_EmptyQueryPolicies ==
    /\ rec.op = "search_movies" =>
          IF strip(rec.prev) = "" THEN rec.res = catalog.movies
          ELSE rec.res = get_movies_by_title_or_director(catalog,
                                                         strip(rec.prev))
    /\ (/\ rec.op \in {"get_movies_by_title",
                       "get_movies_by_title_or_director"}
        /\ rec.prev = "") => rec.res = <<>>

\* a search for blanks in a catalog of two movies
C24_Witness ==
    /\ rec.op = "search_movies"
    /\ rec.prev = " "
    /\ Len(rec.res) = 2

ControllerQueries ==
    {"get_all_movies", "search_movies", "get_available_genres",
     "get_movies_grouped_by_genre", "get_movie_count",
     "get_recommended_movies", "get_favorite_movies", "get_wathclist_movie",
     "get_watched_movie"}

\* C25: a query of the controller leaves the catalog and the user as they
\* were; search_movies changes _current_search and nothing else of the
\* controller, the other queries nothing of it.
C25_QueriesReadOnly ==
    [][rec'.op \in ControllerQueries
       => /\ catalog' = catalog
          /\ user' = user
          /\ controller'._current_filter = controller._current_filter
          /\ rec'.op # "search_movies" => controller' = controller
    ]_vars

\* a search has changed _current_search for a user with favorites
C25_Witness ==
    /\ rec.op = "search_movies"
    /\ controller._current_search = "Heat"
    /\ user # NoUser
    /\ user.favorites # <<>>
    /\ Len(catalog.movies) = 2


ClickHandlers ==
    {"FilmCard.on_like_clicked", "on_like_clicked", "on_watchlist_clicked",
     "on_watched_clicked"}

\* C27: a click with nobody logged in changes no user, writes nothing and
\* emits nothing; a click with a user logged in saves, and at every signal
\* the handler emits the store file is what save_users writes for the
\* memory of that moment.
C27_SavedBeforeSignal ==
    [][mlast'.op \in ClickHandlers
       => IF current_user = None
          THEN /\ heap' = heap /\ users' = users /\ file' = file
               /\ mlast'.ret = <<>>
               /\ mlast'.saved = "None"
          ELSE /\ mlast'.saved = "True"
               /\ Len(mlast'.ret) >= 1
               /\ \A k \in 1..Len(mlast'.ret) :
                      mlast'.ret[k].file = mlast'.ret[k].data
    ]_vars


\* C26: when no save is under way, the store file is the text that the
\* process whose save_users returned last wrote from its memory.
C26_LastWriterWins ==
    (procs.last # 0 /\ \A p \in Procs : procs.pc[p] = "idle")
        => file.cells = procs.written

====
